---- MODULE Spec2Model ----
(***************************************************************************)
(* Model of the tool-using review bot, actions/llm-pr-bot/pr_bot_agentic.py *)
(*                                                                         *)
(* and of the prompt-chaining bot, actions/llm-pr-bot/pr_bot.py.           *)
(*                                                                         *)
(* The specifications of the module:                                       *)
(*   Spec      the tool-use loop of run_agentic_review_with_tools;         *)
(*   LiveSpec  that loop with every model request returning, and weak      *)
(*             fairness of its steps;                                      *)
(*   ToolSpec  one call of execute_tool on inputs and a world (checkout,   *)
(*             remote API, search commands) drawn from bounded sets;       *)
(*   MainSpec  one run of main() of either program, from the event to the  *)
(*             comment.                                                    *)
(*                                                                         *)
(* Strings are sequences of pieces.  A piece is a record                   *)
(*   [k, s, x, lo, hi]:                                                    *)
(*   k = "raw"  characters lo .. hi-1 of the external text named s         *)
(*   k = "ws"   one whitespace character                                   *)
(*   k = "lit"  the literal (format string) s of the source, x a string    *)
(*              and hi a number interpolated into it                       *)
(*   k = "repr" what an f-string prints for a bytes object of hi bytes     *)
(*              taken from the external text named s                       *)
(***************************************************************************)
EXTENDS Integers, Sequences, FiniteSets, TLC

VARIABLES pc, iteration, messages, response, tool_results, calls, requests,
          final_review, world, context, call, out, run

vars == <<pc, iteration, messages, response, tool_results, calls, requests,
          final_review, world, context, call, out, run>>

-----------------------------------------------------------------------------
(* Program constants                                                       *)

max_iterations == 10
FileCeiling == 50000
SearchCeiling == 10000
DefaultMaxResults == 50
MaxResultsCap == 200
FileListCap == 20

(* Bounds of the model                                                     *)

MaxExtra == 2
MaxFiles == 25
MaxToolUses == 2

-----------------------------------------------------------------------------
(* Strings                                                                 *)

Lit(s) == [k |-> "lit", s |-> s, x |-> "", lo |-> 0, hi |-> 0]
LitX(s, x) == [k |-> "lit", s |-> s, x |-> x, lo |-> 0, hi |-> 0]
LitN(s, n) == [k |-> "lit", s |-> s, x |-> "", lo |-> 0, hi |-> n]
Ws == [k |-> "ws", s |-> " ", x |-> "", lo |-> 0, hi |-> 1]
Raw(s, n) == IF n <= 0 THEN <<>>
             ELSE <<[k |-> "raw", s |-> s, x |-> "", lo |-> 0, hi |-> n]>>

PieceLen(p) == IF p.k = "raw" THEN p.hi - p.lo ELSE 1

RECURSIVE StrLen(_)
StrLen(t) == IF t = <<>> THEN 0 ELSE PieceLen(Head(t)) + StrLen(Tail(t))

\* t[:n]
RECURSIVE Slice(_, _)
Slice(t, n) ==
    IF t = <<>> \/ n <= 0 THEN <<>>
    ELSE LET p == Head(t) IN
         IF PieceLen(p) <= n THEN <<p>> \o Slice(Tail(t), n - PieceLen(p))
         ELSE <<[p EXCEPT !.hi = p.lo + n]>>

\* t.strip()
RECURSIVE LStrip(_)
LStrip(t) == IF t # <<>> /\ Head(t).k = "ws" THEN LStrip(Tail(t)) ELSE t

RECURSIVE RStrip(_)
RStrip(t) == IF t # <<>> /\ t[Len(t)].k = "ws"
             THEN RStrip(SubSeq(t, 1, Len(t) - 1)) ELSE t

Strip(t) == RStrip(LStrip(t))

\* sep.join(ts)
RECURSIVE Join(_, _)
Join(sep, ts) ==
    IF ts = <<>> THEN <<>>
    ELSE IF Len(ts) = 1 THEN ts[1]
    ELSE ts[1] \o sep \o Join(sep, Tail(ts))

Min(a, b) == IF a <= b THEN a ELSE b

-----------------------------------------------------------------------------
(* Python values held by a tool_input mapping.  A mapping is a record with *)
(* one field per argument name; ty = "absent" says the key is not there.   *)

Absent == [ty |-> "absent", s |-> "", i |-> 0]
None == [ty |-> "none", s |-> "", i |-> 0]
StrV(s) == [ty |-> "str", s |-> s, i |-> 0]
IntV(n) == [ty |-> "int", s |-> "", i |-> n]

NoInput == [file_path |-> Absent, pattern |-> Absent, file_pattern |-> Absent,
            max_results |-> Absent, path |-> Absent]

\* d.get(key, default)
Get(v, default) == IF v.ty = "absent" THEN default ELSE v

(* Outcome of a call: a returned string, or an exception that leaves it.   *)
(* effects lists what the call did to its surroundings, in order: each is  *)
(* [op, n], n the --max-count/-m value for the search commands.            *)

Return(text, effects) ==
    [raised |-> FALSE, exc |-> "", text |-> text, effects |-> effects]
Raise(exc, effects) ==
    [raised |-> TRUE, exc |-> exc, text |-> <<>>, effects |-> effects]
Eff(op, n) == [op |-> op, n |-> n]

-----------------------------------------------------------------------------
(* The world a tool call runs in.                                          *)
(*   local   the entry the path names in the checkout:                     *)
(*           kind "absent" | "dir" | "file" | "unreadable", n its length   *)
(*   remote  what the contents API answers for the path:                   *)
(*           kind "404" | "error" | "base64" | "plain" | "other"           *)
(*   rg, grep  how the search command ends: kind "done" | "timeout" |      *)
(*           "oserror", rc its return code, out its standard output        *)
(*   dir     the directory the path names: kind "absent" | "notdir" |      *)
(*           "dir" | "oserror", entries a set of [name, isdir, size]       *)

StdOut(lead, n, trail) ==
    (IF lead THEN <<Ws>> ELSE <<>>) \o Raw("stdout", n) \o
    (IF trail THEN <<Ws>> ELSE <<>>)

\* a 404 answer raises like every other error status
get_file_content_No404(remote) ==
    CASE remote.kind \in {"404", "error"} ->
            [raised |-> TRUE, exc |-> "HTTPError", ty |-> "str", tx |-> <<>>]
      [] remote.kind = "base64" ->
            [raised |-> FALSE, exc |-> "", ty |-> "bytes",
             tx |-> Raw("remote", remote.n)]
      [] remote.kind = "plain" ->
            [raised |-> FALSE, exc |-> "", ty |-> "str",
             tx |-> Raw("remote", remote.n)]
      [] OTHER ->
            [raised |-> FALSE, exc |-> "", ty |-> "str", tx |-> <<>>]

\* get_file_content: [raised, exc, ty, tx]; ty is the Python type returned
get_file_content(remote) ==
    CASE remote.kind = "404" ->
            [raised |-> FALSE, exc |-> "", ty |-> "str", tx |-> <<>>]
      [] remote.kind = "error" ->
            [raised |-> TRUE, exc |-> "HTTPError", ty |-> "str", tx |-> <<>>]
      [] remote.kind = "base64" ->
            [raised |-> FALSE, exc |-> "", ty |-> "bytes",
             tx |-> Raw("remote", remote.n)]
      [] remote.kind = "plain" ->
            [raised |-> FALSE, exc |-> "", ty |-> "str",
             tx |-> Raw("remote", remote.n)]
      [] OTHER ->
            [raised |-> FALSE, exc |-> "", ty |-> "str", tx |-> <<>>]

\* f"{content}" for a str or a bytes object
Format(ty, tx) ==
    IF ty = "bytes"
    THEN <<[k |-> "repr", s |-> "remote", x |-> "", lo |-> 0, hi |-> StrLen(tx)]>>
    ELSE tx

\* content[:50000] + f"\n\n[... truncated, file is {len(content)} chars total]"
TruncateFile(tx) ==
    Slice(tx, FileCeiling) \o
    <<LitN("\n\n[... truncated, file is {len(content)} chars total]", StrLen(tx))>>

\* lines 296-310: the content, read locally or fetched
ReadContent(w) ==
    CASE w.local.kind = "file" ->
            [raised |-> FALSE, exc |-> "", ty |-> "str",
             tx |-> Raw("local", w.local.n), effects |-> <<Eff("open", 0)>>]
      [] w.local.kind = "unreadable" ->
            [raised |-> TRUE, exc |-> "OSError", ty |-> "str", tx |-> <<>>,
             effects |-> <<Eff("open", 0)>>]
      [] OTHER ->
            LET r == get_file_content(w.remote) IN
            [raised |-> r.raised, exc |-> r.exc, ty |-> r.ty, tx |-> r.tx,
             effects |-> <<Eff("api", 0)>>]

read_file(tool_input, w) ==
    IF tool_input.file_path.ty = "absent" THEN Raise("KeyError", <<>>)
    ELSE IF tool_input.file_path.ty # "str"
    THEN \* os.path.join refuses it, inside the try
         Return(<<LitX("Error reading file '{file_path}': {str(e)}", "TypeError")>>, <<>>)
    ELSE
      LET c == ReadContent(w) IN
      IF c.raised
      THEN Return(<<LitX("Error reading file '{file_path}': {str(e)}", c.exc)>>,
                  c.effects)
      ELSE IF c.tx = <<>>
      THEN Return(<<Lit("File '{file_path}' not found or is empty.")>>, c.effects)
      ELSE IF StrLen(c.tx) > FileCeiling
      THEN IF c.ty = "bytes"
           THEN \* bytes + str
                Return(<<LitX("Error reading file '{file_path}': {str(e)}",
                              "TypeError")>>, c.effects)
           ELSE Return(<<Lit("=== Content of {file_path} ===\n\n")>> \o
                       TruncateFile(c.tx), c.effects)
      ELSE Return(<<Lit("=== Content of {file_path} ===\n\n")>> \o
                  Format(c.ty, c.tx), c.effects)

\* the value given is passed on as it is
EffectiveMaxResults_NoCap(tool_input) ==
    LET v == Get(tool_input.max_results, IntV(DefaultMaxResults)) IN
    IF v.ty = "int"
    THEN [raised |-> FALSE, n |-> v.i]
    ELSE [raised |-> TRUE, n |-> 0]

\* min(tool_input.get("max_results", 50), 200); raised when the value given
\* does not compare with an int
EffectiveMaxResults(tool_input) ==
    LET v == Get(tool_input.max_results, IntV(DefaultMaxResults)) IN
    IF v.ty = "int"
    THEN [raised |-> FALSE, n |-> Min(v.i, MaxResultsCap)]
    ELSE [raised |-> TRUE, n |-> 0]

\* output[:10000] + "\n\n[... truncated, too many results]"
TruncateSearch(tx) ==
    Slice(tx, SearchCeiling) \o <<Lit("\n\n[... truncated, too many results]")>>

\* lines 356-364, on the standard output of the command that ran last
SearchOutput(stdout, effects) ==
    LET output == Strip(stdout) IN
    IF output = <<>>
    THEN Return(<<Lit("No matches found for pattern '{pattern}'")>>, effects)
    ELSE IF StrLen(output) > SearchCeiling
    THEN Return(<<Lit("=== Search results for '{pattern}' ===\n\n")>> \o
                TruncateSearch(output), effects)
    ELSE Return(<<Lit("=== Search results for '{pattern}' ===\n\n")>> \o output,
                effects)

\* subprocess.run of one command: what the except clauses turn a failure into
SearchFailure(kind, effects) ==
    IF kind = "timeout"
    THEN Return(<<Lit("Search timed out (>30s). Try a more specific pattern.")>>,
                effects)
    ELSE Return(<<LitX("Error searching: {str(e)}", "OSError")>>, effects)

search_code(tool_input, w) ==
    IF tool_input.pattern.ty = "absent" THEN Raise("KeyError", <<>>)
    ELSE
      LET m == EffectiveMaxResults(tool_input)
          file_pattern == Get(tool_input.file_pattern, StrV("*"))
      IN
      IF m.raised THEN Raise("TypeError", <<>>)
      ELSE IF tool_input.pattern.ty # "str" \/ file_pattern.ty # "str"
      THEN \* subprocess.run refuses an argument that is no string
           Return(<<LitX("Error searching: {str(e)}", "TypeError")>>, <<>>)
      ELSE
        LET e1 == <<Eff("rg", m.n)>>
            e2 == <<Eff("rg", m.n), Eff("grep", m.n)>>
        IN
        IF w.rg.kind # "done" THEN SearchFailure(w.rg.kind, e1)
        ELSE IF w.rg.rc = 1
        THEN Return(<<Lit("No matches found for pattern '{pattern}'")>>, e1)
        ELSE IF w.rg.rc > 1
        THEN IF w.grep.kind # "done" THEN SearchFailure(w.grep.kind, e2)
             ELSE SearchOutput(w.grep.out, e2)
        ELSE SearchOutput(w.rg.out, e1)

\* sorted(names): the names of a set of entries in ascending order
RECURSIVE SortedEntries(_)
SortedEntries(es) ==
    IF es = {} THEN <<>>
    ELSE LET e == CHOOSE a \in es : \A b \in es : a.name <= b.name
         IN <<e>> \o SortedEntries(es \ {e})

EntryLine(e) ==
    IF e.isdir THEN <<LitN("[DIR]  {entry}/", e.name)>>
    ELSE <<[k |-> "lit", s |-> "[FILE] {entry} ({size} bytes)", x |-> "",
            lo |-> e.size, hi |-> e.name]>>

list_directory(tool_input, w) ==
    LET path == Get(tool_input.path, StrV("")) IN
    IF path.ty # "str" THEN Raise("TypeError", <<>>)
    ELSE
      CASE w.dir.kind = "absent" ->
             Return(<<Lit("Directory '{path}' does not exist.")>>, <<Eff("stat", 0)>>)
        [] w.dir.kind = "notdir" ->
             Return(<<Lit("'{path}' is not a directory.")>>, <<Eff("stat", 0)>>)
        [] w.dir.kind = "oserror" ->
             Return(<<LitX("Error listing directory '{path}': {str(e)}", "OSError")>>,
                    <<Eff("stat", 0), Eff("listdir", 0)>>)
        [] OTHER ->
             LET sorted == SortedEntries(w.dir.entries)
                 entries == [i \in 1..Len(sorted) |-> EntryLine(sorted[i])]
             IN IF entries = <<>>
                THEN Return(<<Lit("Directory '{path or 'root'}' is empty.")>>,
                            <<Eff("stat", 0), Eff("listdir", 0)>>)
                ELSE Return(<<Lit("=== Contents of '{path or 'root'}' ===\n\n")>> \o
                            Join(<<Lit("\n")>>, entries),
                            <<Eff("stat", 0), Eff("listdir", 0)>>)

\* the overflow line is added from FileListCap files on
FilesSummary_OffByOne(pr_files) ==
    LET shown == SubSeq(pr_files, 1, Min(Len(pr_files), FileListCap))
        lines == [i \in 1..Len(shown) |->
                    <<LitN("  - {filename} ({status}, +{additions}/-{deletions})",
                           shown[i])>>]
    IN IF Len(pr_files) >= FileListCap
       THEN Append(lines, <<LitN("  ... and {n} more files",
                                 Len(pr_files) - FileListCap)>>)
       ELSE lines

\* lines 399-404: the lines of the changed-files listing
FilesSummary(pr_files) ==
    LET shown == SubSeq(pr_files, 1, Min(Len(pr_files), FileListCap))
        lines == [i \in 1..Len(shown) |->
                    <<LitN("  - {filename} ({status}, +{additions}/-{deletions})",
                           shown[i])>>]
    IN IF Len(pr_files) > FileListCap
       THEN Append(lines, <<LitN("  ... and {n} more files",
                                 Len(pr_files) - FileListCap)>>)
       ELSE lines

\* ctx is the ToolContext, [pr_files, has_body]; pr_files a sequence of file numbers
get_pr_context(ctx) ==
    Return(<<Lit("=== Pull Request Context ===\n\nTitle: {title}\n\nDescription:\n"),
             IF ctx.has_body THEN Lit("{body}")
             ELSE Lit("[No description provided]"),
             LitN("\n\nChanged Files ({n} total):\n", Len(ctx.pr_files))>> \o
           Join(<<Lit("\n")>>, FilesSummary(ctx.pr_files)) \o
           <<Lit("\n\nBase: {base}\nHead: {head} ({sha8})\n")>>,
           <<>>)

\* an unknown name ends the call with an exception
UnknownTool_Raises(tool_name) == Raise("ValueError", <<>>)

\* lines 421-422
UnknownTool(tool_name) ==
    Return(<<LitX("Unknown tool: {tool_name}", tool_name)>>, <<>>)

execute_tool(tool_name, tool_input, ctx, w) ==
    CASE tool_name = "read_file" -> read_file(tool_input, w)
      [] tool_name = "search_code" -> search_code(tool_input, w)
      [] tool_name = "list_directory" -> list_directory(tool_input, w)
      [] tool_name = "get_pr_context" -> get_pr_context(ctx)
      [] OTHER -> UnknownTool(tool_name)

-----------------------------------------------------------------------------
(* Worlds, contexts and tool inputs the specifications draw from           *)

Lens(c) == (0..MaxExtra) \cup ((c - MaxExtra)..(c + MaxExtra)) \cup {c + c}

Entry(name, isdir, size) == [name |-> name, isdir |-> isdir, size |-> size]
Local(kind, n) == [kind |-> kind, n |-> n]
Remote(kind, n) == [kind |-> kind, n |-> n]
Cmd(kind, rc, stdout) == [kind |-> kind, rc |-> rc, out |-> stdout]
Dir(kind, entries) == [kind |-> kind, entries |-> entries]

DefaultWorld ==
    [local |-> Local("absent", 0), remote |-> Remote("404", 0),
     rg |-> Cmd("done", 1, <<>>), grep |-> Cmd("done", 1, <<>>),
     dir |-> Dir("dir", {Entry(2, FALSE, 7), Entry(1, TRUE, 0)})]

Context(n, has_body) == [pr_files |-> [i \in 1..n |-> n + 1 - i], has_body |-> has_body]

Locals == {Local("absent", 0), Local("dir", 0), Local("unreadable", 0)} \cup
          {Local("file", n) : n \in Lens(FileCeiling)}
Remotes == {Remote("404", 0), Remote("error", 0), Remote("other", 0)} \cup
           {Remote(k, n) : k \in {"base64", "plain"}, n \in Lens(FileCeiling)}
StdOuts == {StdOut(l, n, t) : l \in BOOLEAN, n \in Lens(SearchCeiling), t \in BOOLEAN}
RgRuns == {Cmd("timeout", 0, <<>>), Cmd("oserror", 0, <<>>), Cmd("done", 1, <<>>)} \cup
          {Cmd("done", rc, o) : rc \in {-9, 0}, o \in StdOuts}
GrepRuns == {Cmd("timeout", 0, <<>>), Cmd("oserror", 0, <<>>)} \cup
            {Cmd("done", rc, o) : rc \in {0, 1, 2}, o \in StdOuts}
Dirs == {Dir("absent", {}), Dir("notdir", {}), Dir("oserror", {})} \cup
        {Dir("dir", es) : es \in SUBSET {Entry(1, TRUE, 0), Entry(2, FALSE, 7),
                                          Entry(3, FALSE, 0)}}

MaxResultsValues ==
    {Absent, None, StrV("many")} \cup
    {IntV(n) : n \in (-1..MaxExtra) \cup {DefaultMaxResults} \cup
                     ((MaxResultsCap - MaxExtra)..(MaxResultsCap + MaxExtra)) \cup
                     {MaxResultsCap + MaxResultsCap}}

Invocation(name, input) == [name |-> name, input |-> input]

ReadCases ==
    {[call |-> Invocation("read_file", [NoInput EXCEPT !.file_path = fp]),
      world |-> [DefaultWorld EXCEPT !.local = l, !.remote = r],
      context |-> Context(1, TRUE)] :
        fp \in {Absent, None, IntV(1), StrV("src/a.py")}, l \in Locals, r \in Remotes}

SearchCases ==
    {[call |-> Invocation("search_code",
                 [NoInput EXCEPT !.pattern = pt, !.file_pattern = fp, !.max_results = mr]),
      world |-> [DefaultWorld EXCEPT !.rg = c.rg, !.grep = c.grep],
      context |-> Context(1, TRUE)] :
        pt \in {Absent, IntV(1), StrV("fn ")},
        fp \in {Absent, IntV(1), StrV("*"), StrV("*.py")},
        mr \in MaxResultsValues,
        c \in {[rg |-> r, grep |-> Cmd("done", 1, <<>>)] : r \in RgRuns} \cup
              {[rg |-> Cmd("done", 2, <<>>), grep |-> g] : g \in GrepRuns}}

ListCases ==
    {[call |-> Invocation("list_directory", [NoInput EXCEPT !.path = pa]),
      world |-> [DefaultWorld EXCEPT !.dir = d],
      context |-> Context(1, TRUE)] :
        pa \in {Absent, None, IntV(1), StrV(""), StrV("src")}, d \in Dirs}

PrCases ==
    {[call |-> Invocation(name, NoInput), world |-> DefaultWorld,
      context |-> Context(n, b)] :
        name \in {"get_pr_context", "run_tests", ""}, n \in 1..MaxFiles, b \in BOOLEAN}

ToolCases == ReadCases \cup SearchCases \cup ListCases \cup PrCases

\* the state of a run of main(); see MainSpec
NoRun == [entry |-> "", at |-> "", err |-> ""]

NoCall == Invocation("", NoInput)
NoOut == Return(<<>>, <<>>)
NoResponse == [content |-> <<>>, stop_reason |-> ""]

-----------------------------------------------------------------------------
(* ToolSpec: one call of execute_tool                                      *)

ToolInit ==
    /\ \E c \in ToolCases : call = c.call /\ world = c.world /\ context = c.context
    /\ pc = "ToolCall"
    /\ out = NoOut
    /\ run = NoRun
    /\ iteration = 0 /\ messages = <<>> /\ response = NoResponse
    /\ tool_results = <<>> /\ calls = <<>> /\ requests = <<>> /\ final_review = <<>>

ExecuteTool ==
    /\ pc = "ToolCall"
    /\ out' = execute_tool(call.name, call.input, context, world)
    /\ pc' = "ToolDone"
    /\ UNCHANGED <<iteration, messages, response, tool_results, calls, requests,
                   final_review, world, context, call, run>>

ToolNext == ExecuteTool

ToolSpec == ToolInit /\ [][ToolNext]_vars

-----------------------------------------------------------------------------
(* Spec: the loop of run_agentic_review_with_tools                        *)
(*                                                                         *)
(* pc: "AwaitingModel"    about to issue a request with the tool catalogue *)
(*     "DispatchingTools" inside the for loop over tool_use_blocks         *)
(*     "AwaitingSummary"  about to issue the request without tools         *)
(*     "Done"             returned final_review                            *)
(*     "Aborted"          an exception left the function                   *)
(* calls logs the execute_tool calls made for the current response,        *)
(* requests every model request: whether TOOLS was attached and how many   *)
(* turns were sent.                                                        *)

TextBlock(s) == [type |-> "text", text |-> <<Lit(s)>>]
EmptyTextBlock == [type |-> "text", text |-> <<>>]
ToolUse(id, name, input) ==
    [type |-> "tool_use", id |-> id, name |-> name, input |-> input]

\* the invocations a model response may hold, by iteration and position in
\* the response; the third is a name that is none of the tools
ToolPool == <<Invocation("list_directory", NoInput),
              Invocation("get_pr_context", NoInput),
              Invocation("run_tests", NoInput)>>

PoolUse(it, k) ==
    LET t == ToolPool[((it + k - 2) % Len(ToolPool)) + 1]
    IN ToolUse([it |-> it, k |-> k], t.name, t.input)

\* n tool invocations with a text block between each two
ToolContent(it, n) ==
    [j \in 1..(2 * n - 1) |->
        IF j % 2 = 1 THEN PoolUse(it, (j + 1) \div 2) ELSE TextBlock("between")]

\* a well-formed invocation followed by invocations with malformed arguments
BadContents(it) ==
    {<<PoolUse(it, 1), ToolUse([it |-> it, k |-> 2], t.name, t.input)>> :
        t \in {Invocation("read_file", NoInput),
               Invocation("search_code", [NoInput EXCEPT !.pattern = StrV("fn "),
                                                         !.max_results = StrV("many")]),
               Invocation("list_directory", [NoInput EXCEPT !.path = IntV(1)])}}

TextContents ==
    {<<>>, <<EmptyTextBlock>>, <<TextBlock("a")>>, <<TextBlock("a"), TextBlock("b")>>}

\* what the model may answer to the request of iteration it
Responses(it) ==
    {[content |-> c, stop_reason |-> sr] :
        c \in TextContents, sr \in {"end_turn", "max_tokens"}} \cup
    {[content |-> ToolContent(it, n), stop_reason |-> sr] :
        n \in {1, MaxToolUses}, sr \in {"tool_use", "end_turn"}} \cup
    {[content |-> c, stop_reason |-> "tool_use"] : c \in BadContents(it)}

\* what the model may answer to the request without tools
SummaryResponses ==
    {[content |-> c, stop_reason |-> sr] :
        c \in TextContents, sr \in {"end_turn", "max_tokens"}}

IsToolUse(block) == block.type = "tool_use"
HasText(block) == block.type = "text"

\* [block for block in response.content if block.type == "tool_use"]
ToolUseBlocks(content) == SelectSeq(content, IsToolUse)

\* the text blocks joined back to front
JoinedText_Reversed(content) ==
    LET bs == SelectSeq(content, HasText)
    IN Join(<<Lit("\n")>>, [i \in 1..Len(bs) |-> bs[Len(bs) + 1 - i].text])

\* "\n".join(block.text for block in response.content if hasattr(block, "text"))
JoinedText(content) ==
    LET bs == SelectSeq(content, HasText)
    IN Join(<<Lit("\n")>>, [i \in 1..Len(bs) |-> bs[i].text])

UserText(text) == [role |-> "user", kind |-> "text", content |-> text]
AssistantTurn(content) == [role |-> "assistant", kind |-> "blocks", content |-> content]
ToolResultTurn(results) == [role |-> "user", kind |-> "tool_results", content |-> results]
ToolResult(id, text) == [type |-> "tool_result", tool_use_id |-> id, content |-> text]

InitialPrompt == <<Lit("Please begin your code review.")>>
SummaryPrompt ==
    <<Lit("Please provide your final code review summary now based on everything you've discovered.")>>
NoOutputText == <<Lit("Review completed but no final output was generated.")>>

\* a request that carries only the first turn
Request_FirstTurnOnly(tools, msgs) == [tools |-> tools, n |-> 1]

Request(tools, msgs) == [tools |-> tools, n |-> Len(msgs)]

\* the loop is left only when the iterations are used up
LoopLeft_IgnoresStop(stop_reason, it) == ~(it < max_iterations)

\* lines 465, 512-514: the break on end_turn, or the while test failing
LoopLeft(stop_reason, it) == stop_reason = "end_turn" \/ ~(it < max_iterations)

\* the summary is asked for only past the ceiling
HitMaxIterations_Strict(it) == it > max_iterations

\* line 517: if iteration >= max_iterations
HitMaxIterations(it) == it >= max_iterations

\* an empty summary replaced by the literal
SummaryText_Fallback(content) ==
    IF JoinedText(content) = <<>> THEN NoOutputText ELSE JoinedText(content)

\* lines 531-532: what is returned for the response to the summary request
SummaryText(content) == JoinedText(content)

LoopWorlds == {DefaultWorld, [DefaultWorld EXCEPT !.dir = Dir("absent", {})]}
LoopContexts == {Context(1, TRUE), Context(FileListCap + 1, FALSE)}

Init ==
    /\ pc = "AwaitingModel"
    /\ iteration = 0
    /\ messages = <<UserText(InitialPrompt)>>
    /\ response = NoResponse
    /\ tool_results = <<>>
    /\ calls = <<>>
    /\ requests = <<>>
    /\ final_review = <<>>
    /\ world \in LoopWorlds
    /\ context \in LoopContexts
    /\ call = NoCall
    /\ out = NoOut
    /\ run = NoRun

\* lines 465-487: one request with the tool catalogue and its response
ModelResponds ==
    /\ pc = "AwaitingModel"
    /\ iteration < max_iterations
    /\ iteration' = iteration + 1
    /\ \E r \in Responses(iteration + 1) :
        /\ requests' = Append(requests, Request(TRUE, messages))
        /\ response' = r
        /\ messages' = Append(messages, AssistantTurn(r.content))
        /\ IF ToolUseBlocks(r.content) = <<>>
           THEN /\ final_review' = JoinedText(r.content)
                /\ pc' = "Done"
                /\ UNCHANGED <<tool_results, calls>>
           ELSE /\ pc' = "DispatchingTools"
                /\ tool_results' = <<>>
                /\ calls' = <<>>
                /\ UNCHANGED final_review
    /\ UNCHANGED <<world, context, call, out, run>>

\* lines 468-474, 524-529: client.messages.create raises
ModelRequestFails ==
    /\ \/ pc = "AwaitingModel" /\ iteration < max_iterations
          /\ iteration' = iteration + 1
          /\ requests' = Append(requests, Request(TRUE, messages))
       \/ pc = "AwaitingSummary"
          /\ iteration' = iteration
          /\ requests' = Append(requests, Request(FALSE, messages))
    /\ pc' = "Aborted"
    /\ UNCHANGED <<messages, response, tool_results, calls, final_review, world,
                   context, call, out, run>>

\* lines 493-506: one pass of the for loop
DispatchTool ==
    /\ pc = "DispatchingTools"
    /\ Len(tool_results) < Len(ToolUseBlocks(response.content))
    /\ LET tool_block == ToolUseBlocks(response.content)[Len(tool_results) + 1]
           result == execute_tool(tool_block.name, tool_block.input, context, world)
       IN /\ calls' = Append(calls, tool_block.id)
          /\ IF result.raised
             THEN pc' = "Aborted" /\ UNCHANGED tool_results
             ELSE /\ tool_results' =
                        Append(tool_results, ToolResult(tool_block.id, result.text))
                  /\ UNCHANGED pc
    /\ UNCHANGED <<iteration, messages, response, requests, final_review, world,
                   context, call, out, run>>

\* lines 509-522, 534: the results turn, then the loop test and what follows
\* the loop when it is left
AppendResults ==
    /\ pc = "DispatchingTools"
    /\ Len(tool_results) = Len(ToolUseBlocks(response.content))
    /\ LET appended == Append(messages, ToolResultTurn(tool_results))
           left == LoopLeft(response.stop_reason, iteration)
       IN IF ~left
          THEN /\ messages' = appended
               /\ pc' = "AwaitingModel"
               /\ UNCHANGED final_review
          ELSE IF HitMaxIterations(iteration)
          THEN /\ messages' = Append(appended, UserText(SummaryPrompt))
               /\ pc' = "AwaitingSummary"
               /\ UNCHANGED final_review
          ELSE /\ messages' = appended
               /\ final_review' = NoOutputText
               /\ pc' = "Done"
    /\ UNCHANGED <<iteration, response, tool_results, calls, requests, world, context,
                   call, out, run>>

\* lines 524-532: the request without tools and its response
SummaryResponds ==
    /\ pc = "AwaitingSummary"
    /\ \E r \in SummaryResponses :
        /\ requests' = Append(requests, Request(FALSE, messages))
        /\ response' = r
        /\ final_review' = SummaryText(r.content)
    /\ pc' = "Done"
    /\ UNCHANGED <<iteration, messages, tool_results, calls, world, context, call, out,
                   run>>

Next ==
    \/ ModelResponds
    \/ ModelRequestFails
    \/ DispatchTool
    \/ AppendResults
    \/ SummaryResponds

Spec == Init /\ [][Next]_vars

\* the loop when every model request returns
LiveNext ==
    \/ ModelResponds
    \/ DispatchTool
    \/ AppendResults
    \/ SummaryResponds

LiveSpec == Init /\ [][LiveNext]_vars /\ WF_vars(LiveNext)

-----------------------------------------------------------------------------
(* MainSpec: one run of main(), of pr_bot_agentic.py or of pr_bot.py       *)
(*                                                                         *)
(* run.at: "start"    before the event is loaded                           *)
(*         "files"    about to obtain the changed files                    *)
(*         "review"   inside run_agentic_review_with_tools (pc says where) *)
(*         "plan", "per_file", "final"   the stages of run_agentic_review  *)
(*         "simple"   inside run_simple_review                             *)
(*         "output"   the review function of pr_bot.py has returned        *)
(*         "ended"    main() has returned, or raised (err says what)       *)
(* run.sources lists the sizes of the file lists obtained, in order,       *)
(* run.llm lists the call_llm requests of pr_bot.py by stage, post_calls   *)
(* the bodies given to post_issue_comment, posted those it accepted.       *)
(* Settings are drawn where main() reads them.                             *)

max_files == 5

OutputModes == {"", "log", "LOG", "none"}
ReviewModes == {"", "simple", "agentic", "AGENTIC", "agentic_tools"}

\* str.lower() on the settings
Lower(setting) ==
    CASE setting = "LOG" -> "log"
      [] setting = "AGENTIC" -> "agentic"
      [] OTHER -> setting

\* os.environ.get(name, default)
Setting(value, default) == IF value = "" THEN default ELSE value

\* the planning answers: kind "unparseable" (json.loads raises), "nonobject"
\* (JSON that is no object), "object"; focus the value of "focus_files":
\* "absent", "list" (names the file numbers, 0 a name not in the change set)
\* or "badtype" (a value that cannot be sliced)
Plan(kind, focus, names) == [kind |-> kind, focus |-> focus, names |-> names]
NoPlan == Plan("", "", <<>>)
Plans == {Plan("unparseable", "", <<>>), Plan("nonobject", "", <<>>),
          Plan("object", "absent", <<>>), Plan("object", "badtype", <<>>)} \cup
         {Plan("object", "list", ns) :
             ns \in {<<>>, <<1>>, <<0, 1>>, <<1, 1, 0, 1, 1, 1, 1>>}}

PlainContents ==
    TextContents \cup {<<[type |-> "text", text |-> <<Ws, Lit("a"), Ws>>]>>,
                       <<[type |-> "text", text |-> <<Ws>>]>>}

\* call_llm: "\n".join(texts).strip()
call_llm_text(content) == Strip(JoinedText(content))

CommentBody(entry, review) ==
    IF entry = "pr_bot_agentic"
    THEN <<Lit("###  Agentic Code Review (Claude with Tools)\n\n**Model:** {model_name}\n\n")>>
         \o review \o <<Lit("\n\n---\n*This review was generated by Claude ...*\n")>>
    ELSE <<Lit("### Claude Review (model: {model_name}, mode: {review_mode})\n\n")>>
         \o review

StartRun(entry) ==
    [entry |-> entry, at |-> "start", err |-> "", sources |-> <<>>, files |-> 0,
     api_key |-> FALSE,
     review_mode |-> "", output_mode |-> "", llm |-> <<>>, plan |-> NoPlan,
     todo |-> <<>>, notes |-> 0, review |-> <<>>, post_calls |-> <<>>,
     posted |-> <<>>]

Fatal(r, err) == [r EXCEPT !.at = "ended", !.err = err]
Returned(r) == [r EXCEPT !.at = "ended"]

LoopVars == <<pc, iteration, messages, response, tool_results, calls, requests,
              final_review>>

MainInit ==
    /\ run \in {StartRun("pr_bot"), StartRun("pr_bot_agentic")}
    /\ pc = "Main"
    /\ iteration = 0 /\ messages = <<>> /\ response = NoResponse
    /\ tool_results = <<>> /\ calls = <<>> /\ requests = <<>> /\ final_review = <<>>
    /\ world = DefaultWorld
    /\ context = Context(1, TRUE)
    /\ call = NoCall
    /\ out = NoOut

\* pr_bot_agentic.py lines 537-561, pr_bot.py lines 219-239
MainStart ==
    /\ run.at = "start"
    /\ \E event \in {"missing", "not_pr", "pr"},
          repository \in {"unset", "noslash", "slashes", "ok"},
          token \in BOOLEAN, rm \in ReviewModes, om \in OutputModes :
          run' = IF event = "missing" THEN Fatal(run, "GITHUB_EVENT_PATH")
                 ELSE IF event = "not_pr" THEN Returned(run)
                 ELSE IF repository \in {"unset", "noslash"}
                 THEN Fatal(run, "GITHUB_REPOSITORY")
                 ELSE IF repository = "slashes" THEN Fatal(run, "ValueError")
                 ELSE IF ~token THEN Fatal(run, "GITHUB_TOKEN")
                 ELSE IF run.entry = "pr_bot"
                 THEN [run EXCEPT !.at = "files", !.review_mode = rm,
                                  !.output_mode = om]
                 ELSE [run EXCEPT !.at = "files"]
    /\ UNCHANGED <<LoopVars, world, context, call, out>>

\* the changed files are none
NoFiles_Never(n) == FALSE

\* if not files
NoFiles(n) == n = 0

\* pr_bot_agentic.py lines 563-583 and 436-463: the changed files, from git
\* and then from the API, and the start of run_agentic_review_with_tools
AgenticFiles ==
    /\ run.at = "files"
    /\ run.entry = "pr_bot_agentic"
    /\ \E local \in 0..1, api \in {"error", "none", "some"}, key \in BOOLEAN :
          LET remote == IF api = "some" THEN 1 ELSE 0
              n == IF ~NoFiles(local) THEN local ELSE remote
              r == [run EXCEPT !.files = n,
                       !.sources = IF ~NoFiles(local) \/ api = "error"
                                   THEN <<local>> ELSE <<local, remote>>]
          IN IF NoFiles(local) /\ api = "error"
             THEN run' = Fatal(r, "get_pr_files") /\ UNCHANGED <<LoopVars, context>>
             ELSE IF NoFiles(n)
             THEN run' = Returned(r) /\ UNCHANGED <<LoopVars, context>>
             ELSE IF ~key
             THEN /\ run' = Fatal(r, "ANTHROPIC_API_KEY")
                  /\ UNCHANGED <<LoopVars, context>>
             ELSE /\ run' = [r EXCEPT !.at = "review", !.api_key = TRUE]
                  /\ context' = Context(n, TRUE)
                  /\ pc' = "AwaitingModel"
                  /\ messages' = <<UserText(InitialPrompt)>>
                  /\ iteration' = 0
                  /\ UNCHANGED <<response, tool_results, calls, requests, final_review>>
    /\ UNCHANGED <<world, call, out>>

\* pr_bot.py lines 241-261: the changed files from the API and the choice of
\* the review function
BotFiles ==
    /\ run.at = "files"
    /\ run.entry = "pr_bot"
    /\ \E api \in {"error", "none", "some"}, key \in BOOLEAN :
          LET n == IF api = "some" THEN 1 ELSE 0
              r == [run EXCEPT !.files = n, !.sources = <<n>>]
          IN run' = IF api = "error" THEN Fatal(run, "get_pr_files")
                    ELSE IF NoFiles(n) THEN Returned(r)
                    ELSE [r EXCEPT !.api_key = key,
                             !.at = IF Lower(Setting(run.review_mode, "simple")) = "agentic"
                                    THEN "plan" ELSE "simple"]
    /\ UNCHANGED <<LoopVars, world, context, call, out>>

\* for filename in focus_files[:max_files]
FocusSlice(names) == SubSeq(names, 1, Min(Len(names), max_files))

StageAfter(todo) == IF todo = <<>> THEN "final" ELSE "per_file"

\* pr_bot.py lines 145-162: what run_agentic_review does with the planning
\* answer, up to its next request
PlanOutcome(r, plan) ==
    LET p == [r EXCEPT !.plan = plan]
    IN IF plan.kind = "unparseable" THEN [p EXCEPT !.at = "simple"]
       ELSE IF plan.kind = "nonobject" THEN Fatal(p, "AttributeError")
       ELSE IF plan.focus = "badtype" THEN Fatal(p, "TypeError")
       ELSE [p EXCEPT !.todo = FocusSlice(plan.names),
                      !.at = StageAfter(FocusSlice(plan.names))]

Asked(r, stage) == [r EXCEPT !.llm = Append(@, stage)]

\* pr_bot.py lines 124-162 with call_llm (38-61): the planning request
PlanResponds ==
    /\ run.at = "plan"
    /\ \E ok \in BOOLEAN, plan \in Plans :
          run' = IF ~run.api_key THEN Fatal(run, "ANTHROPIC_API_KEY")
                 ELSE IF ~ok THEN Fatal(Asked(run, "plan"), "call_llm")
                 ELSE PlanOutcome(Asked(run, "plan"), plan)
    /\ UNCHANGED <<LoopVars, world, context, call, out>>

\* pr_bot.py lines 162-197: one round of the per-file loop
PerFile ==
    /\ run.at = "per_file"
    /\ \E fetch \in {"error", "empty", "content"}, has_diff \in BOOLEAN,
          ok \in BOOLEAN :
          LET filename == Head(run.todo)
              rest == Tail(run.todo)
              skipped == [run EXCEPT !.todo = rest, !.at = StageAfter(rest)]
          IN run' = IF filename \notin 1..run.files THEN skipped
                    ELSE IF fetch = "error" THEN Fatal(run, "get_file_content")
                    ELSE IF ~has_diff /\ fetch = "empty" THEN skipped
                    ELSE IF ~ok THEN Fatal(Asked(run, "file"), "call_llm")
                    ELSE [Asked(skipped, "file") EXCEPT !.notes = @ + 1]
    /\ UNCHANGED <<LoopVars, world, context, call, out>>

\* pr_bot.py lines 199-215: the synthesis request
Synthesis ==
    /\ run.at = "final"
    /\ \E ok \in BOOLEAN, content \in PlainContents :
          run' = IF ~ok THEN Fatal(Asked(run, "final"), "call_llm")
                 ELSE [Asked(run, "final") EXCEPT !.at = "output",
                          !.review = call_llm_text(content)]
    /\ UNCHANGED <<LoopVars, world, context, call, out>>

\* pr_bot.py lines 76-88 with call_llm (38-61): run_simple_review
SimpleResponds ==
    /\ run.at = "simple"
    /\ \E ok \in BOOLEAN, content \in PlainContents :
          run' = IF ~run.api_key THEN Fatal(run, "ANTHROPIC_API_KEY")
                 ELSE IF ~ok THEN Fatal(Asked(run, "simple"), "call_llm")
                 ELSE [Asked(run, "simple") EXCEPT !.at = "output",
                          !.review = call_llm_text(content)]
    /\ UNCHANGED <<LoopVars, world, context, call, out>>

\* the review function is over, however it ended
ReviewReturned_OrRaised(r, at) ==
    \/ r.entry = "pr_bot" /\ r.at = "output"
    \/ r.entry = "pr_bot_agentic" /\ r.at = "review" /\ at \in {"Done", "Aborted"}

\* main() has its review_text: the review function returned
ReviewReturned(r, at) ==
    \/ r.entry = "pr_bot" /\ r.at = "output"
    \/ r.entry = "pr_bot_agentic" /\ r.at = "review" /\ at = "Done"

\* the comparison without lower()
OutputIsLog_CaseSensitive(setting) == Setting(setting, "comment") = "log"

\* output_mode == "log"
OutputIsLog(setting) == Lower(Setting(setting, "comment")) = "log"

\* pr_bot_agentic.py lines 585-606, pr_bot.py lines 263-274
MainOutput ==
    /\ ReviewReturned(run, pc)
    /\ \E om \in OutputModes, ok \in BOOLEAN :
          LET setting == IF run.entry = "pr_bot" THEN run.output_mode ELSE om
              review == IF run.entry = "pr_bot" THEN run.review ELSE final_review
              r == [run EXCEPT !.output_mode = setting, !.review = review]
              comment == CommentBody(run.entry, review)
              called == [r EXCEPT !.post_calls = Append(@, comment)]
          IN run' = IF OutputIsLog(setting) THEN Returned(r)
                    ELSE IF ~ok THEN Fatal(called, "post_issue_comment")
                    ELSE Returned([called EXCEPT !.posted = Append(@, comment)])
    /\ UNCHANGED <<LoopVars, world, context, call, out>>

MainNext ==
    \/ MainStart
    \/ AgenticFiles
    \/ BotFiles
    \/ PlanResponds
    \/ PerFile
    \/ Synthesis
    \/ SimpleResponds
    \/ ModelResponds
    \/ ModelRequestFails
    \/ DispatchTool
    \/ AppendResults
    \/ SummaryResponds
    \/ MainOutput

MainSpec == MainInit /\ [][MainNext]_vars

-----------------------------------------------------------------------------
(* Properties of the loop (specification Spec)                             *)

Last(q) == q[Len(q)]

\* the texts of the text blocks of a response, front to back
RECURSIVE TextsInOrder(_)
TextsInOrder(content) ==
    IF content = <<>> THEN <<>>
    ELSE IF Head(content).type = "text"
         THEN <<Head(content).text>> \o TextsInOrder(Tail(content))
         ELSE TextsInOrder(Tail(content))

\* texts, one line feed between each two
RECURSIVE NewlineJoined(_)
NewlineJoined(ts) ==
    IF ts = <<>> THEN <<>>
    ELSE IF Len(ts) = 1 THEN ts[1]
    ELSE ts[1] \o <<Lit("\n")>> \o NewlineJoined(Tail(ts))

\* the ids of the tool invocations of a response, front to back
RECURSIVE IdsInOrder(_)
IdsInOrder(content) ==
    IF content = <<>> THEN <<>>
    ELSE IF Head(content).type = "tool_use"
         THEN <<Head(content).id>> \o IdsInOrder(Tail(content))
         ELSE IdsInOrder(Tail(content))

ToolRequests == Cardinality({i \in DOMAIN requests : requests[i].tools})
PlainRequests == Cardinality({i \in DOMAIN requests : ~requests[i].tools})
AssistantTurnsUpTo(j) == Cardinality({i \in 1..j : messages[i].role = "assistant"})

\* C1: a response of the loop without tool invocations ends the loop in the
\* same step: the function returns that response's texts joined front to
\* back, runs no tool, and once it has returned issues no request at all.
C1_TextOnlyReturnsAtOnce ==
    [][ /\ ( /\ requests' # requests
             /\ pc' # "Aborted"
             /\ Last(requests').tools
             /\ IdsInOrder(response'.content) = <<>> )
           => /\ pc' = "Done"
              /\ final_review' = NewlineJoined(TextsInOrder(response'.content))
              /\ calls' = calls
              /\ messages' = Append(messages, AssistantTurn(response'.content))
        /\ pc = "Done" => /\ requests' = requests
                          /\ calls' = calls
                          /\ pc' = "Done"
                          /\ final_review' = final_review ]_vars

\* C1 witness: the second response is two text blocks and the function has
\* returned them joined, after two requests.
C1_Witness ==
    /\ pc = "Done"
    /\ Len(requests) = 2
    /\ PlainRequests = 0
    /\ final_review = <<Lit("a"), Lit("\n"), Lit("b")>>

\* C2: every assistant turn with N >= 1 tool invocations that the loop has
\* finished with is directly followed by a tool-result turn of exactly N
\* results carrying the invocations' ids in order, every tool-result turn
\* directly follows such an assistant turn, and execute_tool was called once
\* per invocation, in order.
C2_OneResultPerInvocation ==
    /\ \A j \in DOMAIN messages :
          ( /\ messages[j].role = "assistant"
            /\ IdsInOrder(messages[j].content) # <<>>
            /\ (j < Len(messages) \/ pc # "DispatchingTools") )
          => /\ j < Len(messages)
             /\ messages[j + 1].kind = "tool_results"
             /\ [i \in DOMAIN messages[j + 1].content |->
                    messages[j + 1].content[i].tool_use_id]
                = IdsInOrder(messages[j].content)
    /\ \A j \in DOMAIN messages :
          messages[j].kind = "tool_results"
          => /\ j > 1
             /\ messages[j - 1].role = "assistant"
             /\ Len(messages[j].content) = Len(IdsInOrder(messages[j - 1].content))
    /\ ( /\ pc \notin {"AwaitingModel", "DispatchingTools"}
         /\ requests # <<>>
         /\ Last(requests).tools
         /\ IdsInOrder(response.content) # <<>> )
       => calls = IdsInOrder(response.content)

\* C3: at most max_iterations requests carry the tool catalogue; once the
\* results of the max_iterations-th response are appended, the summary prompt
\* is the next and last turn, exactly one request without tools follows, it
\* is sent the whole conversation, and its text is what is returned.
C3_CeilingForcesSummary ==
    /\ ToolRequests <= max_iterations
    /\ PlainRequests > 0 => ToolRequests = max_iterations
    /\ \A j \in DOMAIN messages :
          (messages[j].kind = "tool_results" /\ AssistantTurnsUpTo(j) = max_iterations)
          => /\ Len(messages) = j + 1
             /\ messages[j + 1] = UserText(SummaryPrompt)
             /\ pc \in {"AwaitingSummary", "Done", "Aborted"}
             /\ PlainRequests <= 1
             /\ pc = "AwaitingSummary" => PlainRequests = 0
             /\ pc = "Done" =>
                   /\ Len(requests) = max_iterations + 1
                   /\ Last(requests) = [tools |-> FALSE, n |-> Len(messages)]
                   /\ final_review = NewlineJoined(TextsInOrder(response.content))

\* C3 witness: the summary request was made after max_iterations responses
\* with tool invocations, and its text returned.
C3_Witness ==
    /\ pc = "Done"
    /\ ToolRequests = max_iterations
    /\ PlainRequests = 1
    /\ final_review = <<Lit("a")>>

\* C4 as stated: whenever the results of a response with tool invocations and
\* stop reason end_turn are appended, at any iteration, the summary prompt is
\* appended and the loop goes on to the request without tools.
C4_EndTurnAlwaysSummary ==
    [][ ( /\ pc = "DispatchingTools"
          /\ messages' # messages
          /\ response.stop_reason = "end_turn" )
        => /\ pc' = "AwaitingSummary"
           /\ Last(messages') = UserText(SummaryPrompt) ]_vars

\* C4 amended: when the results of a response with tool invocations and stop
\* reason end_turn are appended, the loop is left; at iteration
\* max_iterations the summary prompt is appended and the request without
\* tools follows, at any earlier iteration the function returns the literal
\* "Review completed but no final output was generated." with no further
\* turn and no further request.
C4_EndTurnBreaks ==
    [][ ( /\ pc = "DispatchingTools"
          /\ messages' # messages
          /\ response.stop_reason = "end_turn" )
        => IF iteration = max_iterations
           THEN /\ pc' = "AwaitingSummary"
                /\ messages' = messages \o <<ToolResultTurn(tool_results),
                                             UserText(SummaryPrompt)>>
                /\ requests' = requests
           ELSE /\ pc' = "Done"
                /\ messages' = Append(messages, ToolResultTurn(tool_results))
                /\ final_review' = NoOutputText
                /\ requests' = requests ]_vars

\* C4 witness: the first response had a tool invocation and end_turn, and the
\* function returned the literal after that one request.
C4_Witness ==
    /\ pc = "Done"
    /\ iteration = 1
    /\ Len(requests) = 1
    /\ response.stop_reason = "end_turn"
    /\ Last(messages).kind = "tool_results"
    /\ final_review = NoOutputText

\* C5 as stated: when the summary request was made and its response has no
\* text, the function returns the literal fallback, never the empty string.
C5_EmptySummaryFallsBack ==
    ( /\ pc = "Done"
      /\ ~Last(requests).tools
      /\ NewlineJoined(TextsInOrder(response.content)) = <<>> )
    => /\ final_review = NoOutputText
       /\ final_review # <<>>

\* C5 amended: when the summary request was made, the function returns the
\* joined text of its response unchanged, the empty string when that text is
\* empty; the literal fallback is returned only when the loop was left on
\* end_turn before max_iterations, with no summary request made.
C5_SummaryTextReturnedAsIs ==
    /\ (pc = "Done" /\ ~Last(requests).tools)
       => /\ final_review = NewlineJoined(TextsInOrder(response.content))
          /\ final_review # NoOutputText
    /\ (pc = "Done" /\ final_review = NoOutputText)
       => /\ PlainRequests = 0
          /\ iteration < max_iterations
          /\ response.stop_reason = "end_turn"
          /\ IdsInOrder(response.content) # <<>>

\* C5 witness: the summary response had no text and the empty string was
\* returned.
C5_Witness ==
    /\ pc = "Done"
    /\ ~Last(requests).tools
    /\ TextsInOrder(response.content) = <<>>
    /\ final_review = <<>>

-----------------------------------------------------------------------------
(* Properties of execute_tool (specification ToolSpec)                     *)

ErrorReading(exc) == LitX("Error reading file '{file_path}': {str(e)}", exc)
NotFoundOrEmpty == Lit("File '{file_path}' not found or is empty.")
ContentHeader == Lit("=== Content of {file_path} ===\n\n")
SearchHeader == Lit("=== Search results for '{pattern}' ===\n\n")
FileMarker(n) == LitN("\n\n[... truncated, file is {len(content)} chars total]", n)
SearchMarker == Lit("\n\n[... truncated, too many results]")

\* C6: execute_tool returns a string, whatever the tool name and arguments.
C6_ExecuteToolNeverRaises ==
    pc = "ToolDone" => ~out.raised

\* read_file was called with a path that is a string and names nothing in
\* the checkout
AbsentLocally ==
    /\ pc = "ToolDone"
    /\ call.name = "read_file"
    /\ call.input.file_path.ty = "str"
    /\ world.local.kind = "absent"

C8_MaxResultsClamped ==
    (pc = "ToolDone" /\ call.name = "search_code") =>
        LET mr == call.input.max_results IN
        /\ \A i \in DOMAIN out.effects :
              /\ out.effects[i].op \in {"rg", "grep"}
              /\ out.effects[i].n <= 200
              /\ out.effects[i].n =
                    (IF mr.ty = "absent" THEN 50
                     ELSE IF mr.i > 200 THEN 200 ELSE mr.i)
        /\ mr.ty \notin {"absent", "int"} => out.effects = <<>>

\* C8 witness: a search with max_results 201 ran rg and grep with 200.
C8_Witness ==
    /\ pc = "ToolDone"
    /\ call.name = "search_code"
    /\ call.input.max_results = IntV(201)
    /\ out.effects = <<Eff("rg", 200), Eff("grep", 200)>>

\* the length and origin of the content read_file obtains, n = 0 when it
\* obtains none
Obtained ==
    IF world.local.kind = "file" THEN [s |-> "local", n |-> world.local.n]
    ELSE IF world.local.kind \in {"absent", "dir"} /\
            world.remote.kind \in {"base64", "plain"}
    THEN [s |-> "remote", n |-> world.remote.n]
    ELSE [s |-> "", n |-> 0]

\* the standard output search_code reports, n = 0 when it reports none
Searched ==
    IF world.rg.kind # "done" \/ world.rg.rc = 1 THEN <<>>
    ELSE IF world.rg.rc > 1
    THEN IF world.grep.kind # "done" THEN <<>> ELSE world.grep.out
    ELSE world.rg.out

BodyLen(stdout) == StrLen(SelectSeq(stdout, LAMBDA p : p.k = "raw"))

\* C9: content of read_file up to 50,000 characters and search output up to
\* 10,000 characters come back whole and without marker; longer ones come
\* back as their first 50,000 (10,000) characters followed by one marker,
\* which for read_file gives the length of the whole content.
C9_TruncationAtCeiling ==
    /\ (pc = "ToolDone" /\ call.name = "read_file" /\
        call.input.file_path.ty = "str" /\ Obtained.n > 0)
       => IF Obtained.n <= 50000
          THEN /\ Len(out.text) = 2
               /\ out.text[1] = ContentHeader
               /\ out.text[2].k \in {"raw", "repr"}
               /\ out.text[2].s = Obtained.s
               /\ out.text[2].lo = 0 /\ out.text[2].hi = Obtained.n
          ELSE out.text = <<ContentHeader>> \o
                          <<[k |-> "raw", s |-> Obtained.s, x |-> "",
                             lo |-> 0, hi |-> 50000],
                            FileMarker(Obtained.n)>>
    /\ (pc = "ToolDone" /\ call.name = "search_code" /\ ~out.raised /\
        call.input.pattern.ty = "str" /\
        Get(call.input.file_pattern, StrV("*")).ty = "str" /\
        BodyLen(Searched) > 0)
       => IF BodyLen(Searched) <= 10000
          THEN out.text = <<SearchHeader>> \o Raw("stdout", BodyLen(Searched))
          ELSE out.text = <<SearchHeader>> \o Raw("stdout", 10000) \o
                          <<SearchMarker>>

IsFileLine(p) == p.s = "  - {filename} ({status}, +{additions}/-{deletions})"
IsOverflowLine(p) == p.s = "  ... and {n} more files"
IsTotal(p) == p.s = "\n\nChanged Files ({n} total):\n"

\* C10: get_pr_context on n changed files lists the first min(n, 20) of
\* them in the order of the change set, then the line "... and n - 20 more
\* files" exactly when n > 20, and gives n as the total.
C10_FileListCapped ==
    (pc = "ToolDone" /\ call.name = "get_pr_context") =>
        LET n == Len(context.pr_files)
            lines == SelectSeq(out.text, IsFileLine)
            over == SelectSeq(out.text, IsOverflowLine)
            totals == SelectSeq(out.text, IsTotal)
            shown == IF n < 20 THEN n ELSE 20
        IN /\ ~out.raised
           /\ [i \in 1..Len(lines) |-> lines[i].hi] =
              [i \in 1..shown |-> context.pr_files[i]]
           /\ n > 20 => over = <<LitN("  ... and {n} more files", n - 20)>>
           /\ n <= 20 => over = <<>>
           /\ totals = <<LitN("\n\nChanged Files ({n} total):\n", n)>>
           /\ \A i, j \in DOMAIN out.text :
                 (IsFileLine(out.text[i]) /\ IsOverflowLine(out.text[j])) => i < j

\* C10 witness: 25 changed files, and the listing ends "... and 5 more files".
C10_Witness ==
    /\ pc = "ToolDone"
    /\ call.name = "get_pr_context"
    /\ Len(context.pr_files) = 25
    /\ Len(SelectSeq(out.text, IsFileLine)) = 20
    /\ SelectSeq(out.text, IsOverflowLine) = <<LitN("  ... and {n} more files", 5)>>

-----------------------------------------------------------------------------
(* Properties of a run of main() (specification MainSpec)                  *)

RunEnded == run.at = "ended" \/ pc = "Aborted"
RunFailed == run.err # "" \/ pc = "Aborted"
EndedNormally == run.at = "ended" /\ run.err = ""

UnusablePlan == run.plan.kind \in {"unparseable", "nonobject"}

\* C11: in run_agentic_review of pr_bot.py, a planning answer that cannot be
\* used as the plan, be it text that does not parse or parsed data that is no
\* plan object, does not abort the run: the run goes on to the simple
\* review, which issues exactly one further model request and no per-file or
\* synthesis request, and its text is the review returned.
C11_UnusablePlanFallsBack ==
    UnusablePlan =>
        /\ run.err \notin {"AttributeError", "TypeError"}
        /\ run.llm \in {<<"plan">>, <<"plan", "simple">>}
        /\ (run.at = "simple") <=> (run.llm = <<"plan">> /\ run.err = "")
        /\ run.notes = 0

\* the review function returned a text to main()
ReviewCompleted ==
    /\ run.err \in {"", "post_issue_comment"}
    /\ \/ run.entry = "pr_bot_agentic" /\ run.at \in {"review", "ended"} /\ pc = "Done"
       \/ run.entry = "pr_bot" /\ run.at \in {"output", "ended"}
          /\ run.llm # <<>> /\ Last(run.llm) \in {"final", "simple"}

FatalErrors ==
    {"GITHUB_EVENT_PATH", "GITHUB_REPOSITORY", "ValueError", "GITHUB_TOKEN",
     "ANTHROPIC_API_KEY", "get_pr_files", "call_llm"}

\* C12: in both programs a comment is posted at most once in a run and only
\* after the review function returned normally; a run ended by a fatal error
\* (event file, repository identifier, token, API key, failure of the
\* change-set fetch or of a model request) has posted no comment.
C12_PostOnlyAfterReview ==
    /\ Len(run.post_calls) <= 1
    /\ Len(run.posted) <= Len(run.post_calls)
    /\ run.post_calls # <<>> => ReviewCompleted
    /\ (run.err \in FatalErrors \/ pc = "Aborted") =>
           run.post_calls = <<>> /\ run.posted = <<>>

C12_Witness ==
    /\ run.entry = "pr_bot_agentic"
    /\ Len(run.posted) = 1
    /\ pc = "Done"
    /\ iteration > 1

\* the text occurs in the body as a contiguous part
Contains(body, text) ==
    \E i \in 0..(Len(body) - Len(text)) : SubSeq(body, i + 1, i + Len(text)) = text

ReviewText == IF run.entry = "pr_bot_agentic" THEN final_review ELSE run.review

\* C13: a run that completes its review with the output setting equal to
\* "log" (after lower-casing) never calls post_issue_comment; with any other
\* setting, or none, it calls post_issue_comment exactly once, with a body
\* that contains the review text.
C13_LogNeverPosts ==
    (ReviewCompleted /\ run.at = "ended") =>
        IF run.output_mode \in {"log", "LOG"}
        THEN run.post_calls = <<>>
        ELSE /\ Len(run.post_calls) = 1
             /\ Contains(run.post_calls[1], ReviewText)
             /\ Len(run.post_calls[1]) > Len(ReviewText)

C13_Witness ==
    /\ ReviewCompleted
    /\ run.at = "ended"
    /\ run.output_mode = "LOG"
    /\ run.post_calls = <<>>
    /\ ReviewText # <<>>

EmptyChangeSet ==
    \/ run.entry = "pr_bot_agentic" /\ run.sources = <<0, 0>>
    \/ run.entry = "pr_bot" /\ run.sources = <<0>>

\* C14: when the change set is empty (for pr_bot_agentic.py: empty from the
\* local diff and empty from the API as well), the run ends normally with no
\* model request issued and no comment posted.
C14_EmptyChangeSetSkips ==
    EmptyChangeSet =>
        /\ EndedNormally
        /\ pc = "Main"
        /\ requests = <<>>
        /\ run.llm = <<>>
        /\ run.post_calls = <<>>

C14_Witness ==
    /\ run.entry = "pr_bot_agentic"
    /\ run.sources = <<0, 0>>
    /\ EndedNormally

-----------------------------------------------------------------------------
(* Further properties of the loop (specifications Spec and LiveSpec)       *)

IsPrefix(p, q) == Len(p) <= Len(q) /\ SubSeq(q, 1, Len(p)) = p

\* C15: the conversation starts as exactly one user text turn; every step
\* leaves the previous conversation a prefix of the new one; every model
\* request carries the whole conversation built when it is issued; and the
\* step that ends the loop does not shorten the conversation either.
C15_ConversationAppendOnly ==
    /\ Len(messages) = 1
    /\ messages[1].role = "user" /\ messages[1].kind = "text"
    /\ [][ /\ IsPrefix(messages, messages')
           /\ requests' # requests =>
                 /\ Len(requests') = Len(requests) + 1
                 /\ IsPrefix(requests, requests')
                 /\ Last(requests').n = Len(messages)
           /\ pc' \in {"Done", "Aborted"} => Len(messages') >= Len(messages) ]_vars

C15_Witness ==
    /\ pc = "Done"
    /\ Len(requests) = 3
    /\ Len(messages) = 6
    /\ requests[1].n = 1
    /\ requests[3].n = 5

\* C16: when every model request returns, the function always gets to Done
\* and returns a string, whatever the responses are (in no state short of
\* Done is it without a next step), and it issues at most max_iterations + 1
\* model requests.
C16_AlwaysReachesDone ==
    /\ pc = "Done" \/ ENABLED LiveNext
    /\ pc \in {"AwaitingModel", "DispatchingTools", "AwaitingSummary", "Done"}
    /\ Len(requests) <= max_iterations + 1

KnownTools == {"read_file", "search_code", "list_directory", "get_pr_context"}

UnknownToolText(name) ==
    <<[k |-> "lit", s |-> "Unknown tool: {tool_name}", x |-> name, lo |-> 0, hi |-> 0]>>

\* C17: a tool invocation whose name is none of the four tools does not
\* abort the run: execute_tool returns "Unknown tool: <name>" with no access
\* to the checkout or the API, the text is appended as the tool result under
\* the invocation's id, and the loop goes on with the invocations and
\* iterations that follow.
C17_UnknownToolContinues ==
    [][ ( /\ pc = "DispatchingTools"
          /\ calls' # calls
          /\ ToolUseBlocks(response.content)[Len(tool_results) + 1].name \notin KnownTools )
        => LET tool_block == ToolUseBlocks(response.content)[Len(tool_results) + 1]
               result == execute_tool(tool_block.name, tool_block.input, context, world)
           IN /\ ~result.raised
              /\ result.effects = <<>>
              /\ result.text = UnknownToolText(tool_block.name)
              /\ pc' = "DispatchingTools"
              /\ tool_results' =
                    Append(tool_results,
                           [type |-> "tool_result", tool_use_id |-> tool_block.id,
                            content |-> UnknownToolText(tool_block.name)])
              /\ messages' = messages ]_vars

C17_Witness ==
    /\ pc = "AwaitingModel"
    /\ iteration = 2
    /\ Len(messages) = 5
    /\ \E i \in 1..Len(messages[5].content) :
          /\ messages[5].content[i].content = UnknownToolText("run_tests")
          /\ messages[5].content[i].tool_use_id = ToolUseBlocks(messages[4].content)[i].id
          /\ ToolUseBlocks(messages[4].content)[i].name = "run_tests"

==========================================================================
